---- MODULE Spec2Model ----
(***************************************************************************)
(* convertPdfToMd of src/src/hooks/useConverter.ts: the per-page layout    *)
(* reconstruction (font statistics, transform tracking, run filtering,     *)
(* line clustering, reading order, heading classification, paragraph       *)
(* assembly) as a state machine, one action per loop iteration or step.    *)
(*                                                                         *)
(* Numbers.  Every length, coordinate and matrix entry is an integer count *)
(* of 1/Unit.  Unit is a multiple of 10 and of 2^MaxOps, the inputs are    *)
(* multiples of 1/2, so every product the code forms (x * 0.8, x * 0.9,    *)
(* products of at most MaxOps matrices with dyadic entries) is exact in    *)
(* these units; comparisons against x * 1.15, x * 0.85 and x * 0.25 are    *)
(* cross-multiplied.  The model is thus the code over exact rationals; on  *)
(* the input sets below IEEE doubles decide every comparison the same way. *)
(*                                                                         *)
(* Strings are sequences of UTF-16 code units.  A JS array index i is      *)
(* i + 1 here.  undefined (a missing height or width) is 0, which is what  *)
(* every use in the code (x || y) makes of it.                             *)
(***************************************************************************)
EXTENDS Integers, Sequences, FiniteSets, TLC

\* ------------------------------------------------------------------ bounds
MaxOps == 3       \* longest operator stream of a page
MaxRuns == 3      \* most text runs of a page in the font statistics inputs
MaxFilterRuns == 2 \* most text runs of a page in the filter inputs
MaxHeadingRuns == 2 \* most text runs, besides the body text, in the heading inputs
MaxParaLines == 2  \* most text lines of a page in the paragraph inputs
MaxOrderRuns == 2  \* most text runs of a page in the reading order inputs
MaxImages == 2     \* most images of a page in the reading order inputs
MaxLineRuns == 3    \* most text runs of a line in the line assembly inputs
MaxSecondImages == 1 \* most images of the second conversion call
MaxPages == 3      \* most pages of a document
MaxClusterRuns == 3 \* most text runs of a page in the clustering inputs

Unit == 10 * (2 ^ MaxOps)
Half == Unit \div 2
Fifth == Unit \div 5

\* --------------------------------------------------------- program constants
HEADER_HEIGHT == 70
FOOTER_HEIGHT == 70
Y_TOLERANCE == 4
DEFAULT_FONT == 10
IMAGE_EDGE == 20

VARIABLES
  pc,                \* where convertPdfToMd is in the page body
  pageNumber,        \* the page loop's counter
  pageHeight,        \* viewport.height
  items,             \* content.items, the page's text runs
  ops,               \* the operator list: <<[fn, args], ...>>
  fontSizes,         \* Record<number, number>: <<[size, count], ...>> in creation order
  baseFontSize,
  ctm,               \* current transform, <<a, b, c, d, e, f>>
  transformStack,
  i,                 \* operator loop index
  imageInfos,
  pageImages,
  activeUrls,        \* activeUrlsRef.current
  urlCount,          \* how many URLs URL.createObjectURL has issued
  lines,
  n,                 \* index of the run the clustering loop is at
  processedLines,
  maxLineWidth,
  pageText,
  currentParagraph,
  index,             \* index of the processed line the emit loop is at
  parts,             \* the fragments of the pages done
  emitted,           \* history: the lines in the order the emit loop put them out
  fragments,         \* history: pageText of every page done, pushed or not
  allExtractedImages,
  numPages,          \* pdf.numPages
  extractedImages,   \* the hook's state, as last set by setExtractedImages
  revoked,           \* the URLs URL.revokeObjectURL was called with
  result,            \* the value the call resolved with
  thrown,            \* the value the call rejected with
  error,             \* the hook's state, as last set by setError
  isConverting,      \* the hook's state, as last set by setIsConverting
  second,            \* a second conversion call on the same hook: where it is
  secondKind,        \* "pdf" or "docx"
  secondImages,      \* the URLs of the images the second call has collected
  markdown,          \* App: latestMarkdownRef.current
  fileName,          \* App: latestFileNameRef.current
  saveStatus,        \* App: 'saved' | 'saving'
  timer,             \* App: the auto-save timeout is pending
  storedContent,     \* localStorage auto_save_content
  storedName,        \* localStorage auto_save_name
  upload             \* App: the file type processFile is converting, or "none"

vars == <<pc, pageNumber, pageHeight, items, ops, fontSizes, baseFontSize, ctm,
          transformStack, i, imageInfos, pageImages, activeUrls, urlCount, lines, n,
          processedLines, maxLineWidth, pageText, currentParagraph, index, parts,
          emitted, fragments, allExtractedImages, numPages, extractedImages,
          revoked, result, thrown, error, isConverting, second, secondKind, secondImages,
          markdown,
          fileName, saveStatus, timer, storedContent, storedName, upload>>

trackerVars == <<ctm, transformStack, i, imageInfos, pageImages, activeUrls, urlCount,
                 allExtractedImages>>
groupVars == <<lines, n>>
emitVars == <<processedLines, maxLineWidth, pageText, currentParagraph, index, parts, emitted,
              fragments>>
callVars == <<numPages, extractedImages, revoked, result, thrown, error, isConverting>>
secondVars == <<second, secondKind, secondImages>>
appVars == <<markdown, fileName, saveStatus, timer, storedContent, storedName, upload>>

\* ----------------------------------------------------------------- helpers
Abs(x) == IF x < 0 THEN -x ELSE x

RECURSIVE MaxOfSeq(_)
MaxOfSeq(s) ==
  IF Len(s) = 1 THEN s[1]
  ELSE LET m == MaxOfSeq(Tail(s)) IN IF s[1] >= m THEN s[1] ELSE m

\* A text run: {str, transform, height?, width?}
Run(str, x, y, t3, height, width) ==
  [str |-> str, transform |-> <<Unit, 0, 0, t3, x, y>>, height |-> height, width |-> width]

Identity == <<Unit, 0, 0, Unit, 0, 0>>

\* ------------------------------------------------- 1.1 base font size
\* item.height || item.transform[3] || 10
FontSizeOf(item) ==
  IF item.height # 0 THEN item.height
  ELSE IF item.transform[4] # 0 THEN item.transform[4]
  ELSE DEFAULT_FONT * Unit

\* Math.round: floor(x + 0.5), an integer (not a count of 1/Unit); -0 is the key "0"
Round(h) == (2 * h + Unit) \div (2 * Unit)

\* fontSizes[rounded] = (fontSizes[rounded] || 0) + item.str.length
AddCount(fs, key, len) ==
  IF \E j \in 1..Len(fs) : fs[j].size = key
  THEN [j \in 1..Len(fs) |->
          IF fs[j].size = key THEN [fs[j] EXCEPT !.count = @ + len] ELSE fs[j]]
  ELSE Append(fs, [size |-> key, count |-> len])

RECURSIVE CountRuns(_, _)
CountRuns(its, fs) ==
  IF its = <<>> THEN fs
  ELSE CountRuns(Tail(its),
                 AddCount(fs, Round(FontSizeOf(Head(its))), Len(Head(its).str)))

RECURSIVE Ascending(_)
Ascending(S) ==
  IF S = {} THEN <<>>
  ELSE LET m == CHOOSE x \in S : \A z \in S : x <= z
       IN <<m>> \o Ascending(S \ {m})

IsNegativeKey(e) == e.size < 0

CreationOrder(fs) ==
  [j \in 1..Len(fs) |-> fs[j].size]

\* (mutant) every key in creation order
ForInCreationOrder(fs) == CreationOrder(fs)

\* for (const size in fontSizes): the keys that are array indices (the integers
\* >= 0) in ascending order, then the other keys (the negative ones) in the
\* order they were created
ForInOrder(fs) ==
  Ascending({fs[j].size : j \in {m \in 1..Len(fs) : fs[m].size >= 0}})
    \o CreationOrder(SelectSeq(fs, IsNegativeKey))

CountOf(fs, key) ==
  LET j == CHOOSE m \in 1..Len(fs) : fs[m].size = key IN fs[j].count

\* (mutant) >= for >
IsNewMaxOrEqual(count, maxCount) == count >= maxCount

\* if (fontSizes[size] > maxCount)
IsNewMax(count, maxCount) == count > maxCount

RECURSIVE MaxLoop(_, _, _, _)
MaxLoop(keys, fs, maxCount, base) ==
  IF keys = <<>> THEN base
  ELSE IF IsNewMax(CountOf(fs, Head(keys)), maxCount)
       THEN MaxLoop(Tail(keys), fs, CountOf(fs, Head(keys)), Head(keys))
       ELSE MaxLoop(Tail(keys), fs, maxCount, base)

\* baseFontSize after lines 510-518, as the number it is (a count of whole units)
BaseKey(fs) ==
  LET b == MaxLoop(ForInOrder(fs), fs, 0, 0)
  IN IF b = 0 THEN DEFAULT_FONT ELSE b

BaseFontSizeOf(its) == BaseKey(CountRuns(its, <<>>)) * Unit

\* ------------------------------------------------------------ input sets
Sa == <<97>>                          \* "a"

\* the runs of the font statistics inputs: a height, or no height and a
\* transform[3] (negative for mirrored text), or neither; 0, 1 or 2 characters
FontRuns ==
  { Run(s, 0, 400 * Unit, Unit, h, 10 * Unit) :
      s \in {<<>>, Sa}, h \in {12 * Unit, 12 * Unit + Half, 14 * Unit, Fifth} }
  \cup
  { Run(s, 0, 400 * Unit, t3, 0, 10 * Unit) :
      s \in {<<>>, Sa}, t3 \in {0, -12 * Unit, -14 * Unit} }

SeqsUpTo(S, len) == UNION {[1..m -> S] : m \in 0..len}

Page(its, os, h) == [items |-> its, ops |-> os, height |-> h]

FontPages == { Page(its, <<>>, 800 * Unit) : its \in SeqsUpTo(FontRuns, MaxRuns) }

\* ------------------------------------------------------------------ actions
\* null: setError(null), and no rejection
NoError == "null"

\* the call has not rejected
Nothing == [name |-> "nothing"]

\* no second call on the hook
SecondIdle ==
  /\ second = "none"
  /\ secondKind = "pdf"
  /\ secondImages = <<>>

\* localStorage.getItem gives null
Missing == "(null)"

\* App.tsx lines 77-91 and 101-103 with nothing in localStorage
AppFresh ==
  /\ markdown = ""
  /\ fileName = "document"
  /\ saveStatus = "saved"
  /\ timer = FALSE
  /\ storedContent = Missing
  /\ storedName = Missing
  /\ upload = "none"

Init ==
  /\ pc = "start"
  /\ pageNumber = 0
  /\ pageHeight = 0
  /\ items = <<>>
  /\ ops = <<>>
  /\ fontSizes = <<>>
  /\ baseFontSize = 0
  /\ ctm = Identity
  /\ transformStack = <<>>
  /\ i = 1
  /\ imageInfos = <<>>
  /\ pageImages = <<>>
  /\ activeUrls = <<>>
  /\ urlCount = 0
  /\ lines = <<>>
  /\ n = 1
  /\ processedLines = <<>>
  /\ maxLineWidth = 0
  /\ pageText = <<>>
  /\ currentParagraph = <<>>
  /\ index = 1
  /\ parts = <<>>
  /\ emitted = <<>>
  /\ fragments = <<>>
  /\ allExtractedImages = <<>>
  /\ numPages = 0
  /\ extractedImages = <<>>
  /\ revoked = {}
  /\ result = <<>>
  /\ thrown = Nothing
  /\ isConverting = FALSE
  /\ error = NoError
  /\ SecondIdle
  /\ AppFresh

\* lines 478-485: the page, its viewport height and its text runs
StartPage(pages) ==
  /\ pc = "start"
  /\ \E p \in pages :
       /\ items' = p.items
       /\ ops' = p.ops
       /\ pageHeight' = p.height
  /\ pageNumber' = pageNumber + 1
  /\ pc' = "font"
  /\ UNCHANGED <<fontSizes, baseFontSize>>
  /\ UNCHANGED <<trackerVars, groupVars, emitVars, callVars, secondVars, appVars>>

\* lines 502-518 and 521-538: the base font size, then the tracker's initial state
EstimateBase ==
  /\ pc = "font"
  /\ fontSizes' = CountRuns(items, <<>>)
  /\ baseFontSize' = BaseFontSizeOf(items)
  /\ ctm' = Identity
  /\ transformStack' = <<>>
  /\ i' = 1
  /\ imageInfos' = <<>>
  /\ pageImages' = <<>>
  /\ pc' = IF ops # <<>> THEN "ops" ELSE IF items # <<>> THEN "group" ELSE "images"
  /\ UNCHANGED <<pageNumber, pageHeight, items, ops, activeUrls, urlCount>>
  /\ UNCHANGED <<allExtractedImages, groupVars, emitVars, callVars, secondVars, appVars>>

NextFont == StartPage(FontPages) \/ EstimateBase

SpecFont == Init /\ [][NextFont]_vars

\* ------------------------------------------------ font statistics: claims
BaseKnown == pc \notin {"start", "font"}

\* the buckets and their counts as section 4.1 states them
SizeKeys(its) == {Round(FontSizeOf(its[j])) : j \in 1..Len(its)}

RECURSIVE CharsAt(_, _)
CharsAt(its, key) ==
  IF its = <<>> THEN 0
  ELSE (IF Round(FontSizeOf(Head(its))) = key THEN Len(Head(its).str) ELSE 0)
       + CharsAt(Tail(its), key)

LargestKeys(its) ==
  {key \in SizeKeys(its) : \A other \in SizeKeys(its) : CharsAt(its, other) <= CharsAt(its, key)}

FirstSeenOf(its, keys) ==
  LET j == CHOOSE m \in 1..Len(its) :
             /\ Round(FontSizeOf(its[m])) \in keys
             /\ \A l \in 1..(m - 1) : Round(FontSizeOf(its[l])) \notin keys
  IN Round(FontSizeOf(its[j]))

SmallestOf(keys) == CHOOSE key \in keys : \A other \in keys : key <= other

ReadKey(key) == (IF key = 0 THEN DEFAULT_FONT ELSE key) * Unit

\* C4 as stated: the base font size is a bucket with the largest accumulated
\* character count, and 10 when the page has no text runs.
C4_AsStated ==
  BaseKnown =>
    IF items = <<>> THEN baseFontSize = DEFAULT_FONT * Unit
    ELSE \E key \in LargestKeys(items) : baseFontSize = key * Unit

\* C4, amended: the base font size is a bucket with the largest accumulated
\* character count when that count is positive and the bucket is not 0; it is
\* 10 when no run has a character (in particular when there are no runs) and
\* when the winning bucket is 0.
C4_BaseIsLargestBucket ==
  BaseKnown =>
    IF \A key \in SizeKeys(items) : CharsAt(items, key) = 0
    THEN baseFontSize = DEFAULT_FONT * Unit
    ELSE \E key \in LargestKeys(items) : baseFontSize = ReadKey(key)

C4_Witness ==
  /\ BaseKnown
  /\ Len(items) = 3
  /\ Cardinality(SizeKeys(items)) = 2
  /\ LargestKeys(items) = {14}
  /\ CharsAt(items, 14) = 2
  /\ baseFontSize = 14 * Unit

Tied(its) == Cardinality(LargestKeys(its)) >= 2

\* C5 as stated (for a tie at a positive count): when several buckets share
\* the maximum count, the base font size is the tied key seen first in the run
\* sequence.
C5_AsStated ==
  (BaseKnown /\ Tied(items) /\ \E key \in SizeKeys(items) : CharsAt(items, key) > 0) =>
    baseFontSize = FirstSeenOf(items, LargestKeys(items)) * Unit

\* C5, amended: when several buckets share the maximum count and that count
\* is positive, the base font size is the smallest tied key that is not
\* negative (10 when that key is 0), whatever the order of the runs; only when
\* every tied key is negative is it the tied key seen first.  When the shared
\* count is 0 it is 10.
C5_TieGoesToSmallestKey ==
  (BaseKnown /\ Tied(items)) =>
    LET tied == LargestKeys(items)
        count == CharsAt(items, SmallestOf(tied))
        nonNegative == {key \in tied : key >= 0}
    IN IF count = 0 THEN baseFontSize = DEFAULT_FONT * Unit
       ELSE IF nonNegative # {} THEN baseFontSize = ReadKey(SmallestOf(nonNegative))
       ELSE baseFontSize = FirstSeenOf(items, tied) * Unit

\* a tie between 12 and 14 in which 14 is seen first, and 12 wins
C5_Witness ==
  /\ BaseKnown
  /\ LargestKeys(items) = {12, 14}
  /\ CharsAt(items, 12) = 1
  /\ FirstSeenOf(items, {12, 14}) = 14
  /\ baseFontSize = 12 * Unit

Permuted(its) ==
  {[j \in 1..Len(its) |-> its[p[j]]] : p \in Permutations(1..Len(its))}

\* C6: the base font size is the same for every permutation of the page's
\* run sequence.
C6_PermutationInvariant ==
  BaseKnown => \A other \in Permuted(items) : BaseFontSizeOf(other) = baseFontSize

\* ------------------------------------------------- 2. transform tracker
\* a product of two numbers
Times(a, b) == (a * b) \div Unit

\* lines 526-535
multiply(m1, m2) ==
  << Times(m1[1], m2[1]) + Times(m1[2], m2[3]),
     Times(m1[1], m2[2]) + Times(m1[2], m2[4]),
     Times(m1[3], m2[1]) + Times(m1[4], m2[3]),
     Times(m1[3], m2[2]) + Times(m1[4], m2[4]),
     Times(m1[5], m2[1]) + Times(m1[6], m2[3]) + m1[5],
     Times(m1[5], m2[2]) + Times(m1[6], m2[4]) + m1[6] >>

\* lines 582-592: Math.max(pdfY00, pdfY01, pdfY10, pdfY11)
visualTopY(m) == MaxOfSeq(<<m[6], m[4] + m[6], m[2] + m[6], m[2] + m[4] + m[6]>>)

IsPaint(fn) == fn \in {"paintImageXObject", "paintInlineImageXObject"}

\* what resolving and decoding one image can come to (lines 556-699): the
\* resolver or a later call throws, there is no image, no 2d context, no blob,
\* or a blob
PaintOutcomes == {"throws", "noImage", "noContext", "noBlob", "blob"}

\* (mutant) the operator index left out
ImgIdOfPage(page, opIndex) == <<page, 0>>

\* `pdf_img_${pageNumber}_${i}`
ImgId(page, opIndex) == <<page, opIndex - 1>>

\* (mutant) the URL is not put in the registry
registerBlobUrlNot(urls, url) == urls

\* lines 68-71: activeUrlsRef.current.push(url)
registerBlobUrl(urls, url) == Append(urls, url)

\* (mutant) no try around the paint branch: a throw leaves the operator loop
AfterPaintUncaught(outcome, next) == IF outcome = "throws" THEN "failed" ELSE next

\* lines 556 and 697-699: the catch logs, and the loop goes on
AfterPaint(outcome, next) == next

\* (mutant) the page's images put before those of the pages done
PushAllFirst(all, images) == images \o all

\* line 703: allExtractedImages.push(...pageImages)
PushAll(all, images) == all \o images

\* (mutant) a restore with nothing saved goes back to the identity
PoppedOrIdentity(stack, m) == IF Len(stack) > 0 THEN stack[Len(stack)] ELSE Identity

\* lines 546-549: if (transformStack.length > 0) ctm = transformStack.pop()
PoppedOrKept(stack, m) == IF Len(stack) > 0 THEN stack[Len(stack)] ELSE m

\* lines 540-703: one iteration of the operator loop; after the last one the
\* page's images are pushed to allExtractedImages
ReplayOp ==
  /\ pc = "ops"
  /\ LET fn == ops[i].fn
         args == ops[i].args
         depth == Len(transformStack)
     IN \E outcome \in PaintOutcomes :
          /\ ctm' = IF fn = "restore" THEN PoppedOrKept(transformStack, ctm)
                    ELSE IF fn = "transform" THEN multiply(ctm, args)
                    ELSE ctm
          /\ transformStack' =
               IF fn = "save" THEN Append(transformStack, ctm)
               ELSE IF fn = "restore" /\ depth > 0 THEN SubSeq(transformStack, 1, depth - 1)
               ELSE transformStack
          /\ IF IsPaint(fn) /\ outcome = "blob"
             THEN /\ urlCount' = urlCount + 1
                  /\ activeUrls' = registerBlobUrl(activeUrls, urlCount + 1)
                  /\ pageImages' = Append(pageImages,
                                          [src |-> urlCount + 1, id |-> ImgId(pageNumber, i)])
                  /\ imageInfos' = Append(imageInfos,
                                          [y |-> visualTopY(ctm), id |-> ImgId(pageNumber, i)])
             ELSE UNCHANGED <<urlCount, activeUrls, pageImages, imageInfos>>
          /\ pc' = AfterPaint(IF IsPaint(fn) THEN outcome ELSE "replayed",
                              IF i + 1 <= Len(ops) THEN "ops"
                              ELSE IF items # <<>> THEN "group" ELSE "images")
  /\ i' = i + 1
  /\ allExtractedImages' = IF i + 1 <= Len(ops) THEN allExtractedImages
                           ELSE PushAll(allExtractedImages, pageImages')
  /\ UNCHANGED <<pageNumber, pageHeight, items, ops, fontSizes, baseFontSize>>
  /\ UNCHANGED <<groupVars, emitVars, callVars, secondVars, appVars>>

\* the operators of the tracker inputs
Op(fn, args) == [fn |-> fn, args |-> args]
ScaleBy(sx, sy) == <<sx, 0, 0, sy, 0, 0>>
TranslateBy(tx, ty) == <<Unit, 0, 0, Unit, tx, ty>>
QuarterTurn == <<0, Unit, -Unit, 0, 0, 0>>
ScaleHalf == ScaleBy(Half, Half)

TransformOps ==
  { Op("transform", m) :
      m \in {ScaleHalf, ScaleBy(2 * Unit, 3 * Unit), TranslateBy(30 * Unit, 100 * Unit),
             QuarterTurn} }

OtherOps ==
  { Op("save", <<>>), Op("restore", <<>>), Op("paintImageXObject", <<>>),
    Op("paintInlineImageXObject", <<>>), Op("beginText", <<>>) }

SaveScalePaintRestore ==
  << Op("save", <<>>), Op("transform", ScaleHalf), Op("paintImageXObject", <<>>),
     Op("restore", <<>>) >>

\* every stream of at most MaxOps operators, and save, scale(0.5), paint,
\* restore after the streams of at most MaxOps - 2 operators
TrackerStreams ==
  SeqsUpTo(TransformOps \cup OtherOps, MaxOps)
    \cup { before \o SaveScalePaintRestore :
             before \in SeqsUpTo(TransformOps \cup OtherOps, MaxOps - 2) }

TrackerPages == { Page(<<>>, os, 800 * Unit) : os \in TrackerStreams }

NextTracker == StartPage(TrackerPages) \/ EstimateBase \/ ReplayOp

SpecTracker == Init /\ [][NextTracker]_vars

\* --------------------------------------------------- tracker: claims
\* the affine map m at the point <<x, y>>
Apply(m, p) ==
  << Times(m[1], p[1]) + Times(m[3], p[2]) + m[5],
     Times(m[2], p[1]) + Times(m[4], p[2]) + m[6] >>

\* T o M of section 4.2: the matrix of the map p |-> T(M(p))
Compose(T, M) ==
  LET o == Apply(T, Apply(M, <<0, 0>>))
      ex == Apply(T, Apply(M, <<Unit, 0>>))
      ey == Apply(T, Apply(M, <<0, Unit>>))
  IN <<ex[1] - o[1], ex[2] - o[2], ey[1] - o[1], ey[2] - o[2], o[1], o[2]>>

\* C2: on a concatenate-transform operator with matrix M the current transform
\* T becomes T o M, in all six components.
C2_ConcatenateComposes ==
  [][(pc = "ops" /\ ops[i].fn = "transform") => ctm' = Compose(ctm, ops[i].args)]_vars

\* the current transform section 4.2 defines after the first k operators of a
\* stream: identity at the start, pushed on save, popped on restore (when there
\* is one to pop), composed on concatenate
RECURSIVE StatedTracker(_, _)
StatedTracker(os, k) ==
  IF k = 0 THEN [current |-> Identity, stack |-> <<>>]
  ELSE LET before == StatedTracker(os, k - 1)
           fn == os[k].fn
           depth == Len(before.stack)
       IN IF fn = "save"
            THEN [before EXCEPT !.stack = Append(@, before.current)]
          ELSE IF fn = "restore" /\ depth > 0
            THEN [current |-> before.stack[depth], stack |-> SubSeq(before.stack, 1, depth - 1)]
          ELSE IF fn = "transform"
            THEN [before EXCEPT !.current = Compose(@, os[k].args)]
          ELSE before

UnitSquare == {<<0, 0>>, <<0, Unit>>, <<Unit, 0>>, <<Unit, Unit>>}

HighestCorner(m) ==
  LET ys == {Apply(m, p)[2] : p \in UnitSquare}
  IN CHOOSE y \in ys : \A other \in ys : other <= y

\* the operators i - 4 .. i - 1 just replayed were save, scale(0.5), paint,
\* restore, and the image was materialised
JustReplayedScenario ==
  /\ pc \in {"ops", "group", "images"}
  /\ i >= 5
  /\ i - 1 <= Len(ops)
  /\ SubSeq(ops, i - 4, i - 1) = SaveScalePaintRestore
  /\ \E j \in 1..Len(imageInfos) : imageInfos[j].id = ImgId(pageNumber, i - 2)

\* C3: for save, scale(0.5), paint, restore replayed when the current
\* transform is T, the image's visual top is the highest corner of the unit
\* square under T o scale(0.5), and after the restore the current transform is T.
C3_ScaledImageTop ==
  JustReplayedScenario =>
    LET T == StatedTracker(ops, i - 5).current
    IN /\ ctm = T
       /\ \A j \in 1..Len(imageInfos) :
            imageInfos[j].id = ImgId(pageNumber, i - 2) =>
              imageInfos[j].y = HighestCorner(Compose(T, ScaleHalf))

\* ------------------------------------------- 3. text run filter, clustering
IsDigit(c) == c \in 48..57

\* \s, and what trim() strips: WhiteSpace and LineTerminator
IsSpace(c) ==
  c \in (9..13) \cup {32, 160, 5760} \cup (8192..8202) \cup {8232, 8233, 8239, 8287, 12288, 65279}

\* the /i of the patterns: only the ASCII letters have another case here
Lower(c) == IF c \in 65..90 THEN c + 32 ELSE c

LowerAll(str) == [j \in 1..Len(str) |-> Lower(str[j])]

RECURSIVE SkipSpaces(_, _)
SkipSpaces(str, j) ==
  IF j <= Len(str) /\ IsSpace(str[j]) THEN SkipSpaces(str, j + 1) ELSE j

RECURSIVE SkipDigits(_, _)
SkipDigits(str, j) ==
  IF j <= Len(str) /\ IsDigit(str[j]) THEN SkipDigits(str, j + 1) ELSE j

RECURSIVE SkipSpacesBack(_, _)
SkipSpacesBack(str, j) ==
  IF j >= 1 /\ IsSpace(str[j]) THEN SkipSpacesBack(str, j - 1) ELSE j

\* str.trim()
Trim(str) == SubSeq(str, SkipSpaces(str, 1), SkipSpacesBack(str, Len(str)))

\* word occurs in str at position j
HasAt(str, j, word) ==
  /\ j >= 1
  /\ j + Len(word) - 1 <= Len(str)
  /\ SubSeq(str, j, j + Len(word) - 1) = word

Contains(str, word) == \E j \in 1..Len(str) : HasAt(str, j, word)

AboutBlankWord == <<97, 98, 111, 117, 116, 58, 98, 108, 97, 110, 107>>
PageWord == <<112, 97, 103, 101>>
DotComWord == <<46, 99, 111, 109>>
UrlWords == {<<119, 119, 119, 46>>, <<104, 116, 116, 112, 58>>, <<104, 116, 116, 112, 115, 58>>}
DateSeparators == {47, 45}

\* /about:blank/i
MatchesAboutBlank(str) == Contains(LowerAll(str), AboutBlankWord)

\* /^\d+\s*\/\s*\d+$/
MatchesPageOfPages(str) ==
  LET d1 == SkipDigits(str, 1)
      s1 == SkipSpaces(str, d1)
      s2 == SkipSpaces(str, s1 + 1)
      d2 == SkipDigits(str, s2)
  IN /\ d1 > 1
     /\ s1 <= Len(str)
     /\ str[s1] = 47
     /\ d2 > s2
     /\ d2 = Len(str) + 1

\* /^\(\d+\)$/
MatchesParenNumber(str) ==
  LET d == SkipDigits(str, 2)
  IN /\ Len(str) >= 3
     /\ str[1] = 40
     /\ d > 2
     /\ d = Len(str)
     /\ str[d] = 41

\* /^\s*Page\s*\d+/i
MatchesPageNumber(str) ==
  LET w == SkipSpaces(str, 1)
      d == SkipSpaces(str, w + Len(PageWord))
  IN /\ HasAt(LowerAll(str), w, PageWord)
     /\ SkipDigits(str, d) > d

\* /^\d{4}[\/\-]\d{1,2}[\/\-]\d{1,2}/
MatchesDate(str) ==
  /\ Len(str) >= 8
  /\ \A j \in 1..4 : IsDigit(str[j])
  /\ str[5] \in DateSeparators
  /\ IsDigit(str[6])
  /\ \/ str[7] \in DateSeparators /\ IsDigit(str[8])
     \/ /\ Len(str) >= 9
        /\ IsDigit(str[7])
        /\ str[8] \in DateSeparators
        /\ IsDigit(str[9])

\* /(www\.|http:|https:)\S+/
MatchesUrl(str) ==
  \E j \in 1..Len(str) : \E word \in UrlWords :
    /\ HasAt(str, j, word)
    /\ j + Len(word) <= Len(str)
    /\ ~IsSpace(str[j + Len(word)])

\* /\.com$/i
MatchesDotCom(str) == HasAt(LowerAll(str), Len(str) - Len(DotComWord) + 1, DotComWord)

\* IGNORE_PATTERNS.some(p => p.test(str))
MatchesIgnorePatterns(str) ==
  \/ MatchesAboutBlank(str)
  \/ MatchesPageOfPages(str)
  \/ MatchesParenNumber(str)
  \/ MatchesPageNumber(str)
  \/ MatchesDate(str)
  \/ MatchesUrl(str)
  \/ MatchesDotCom(str)

\* !item.str || item.str.trim().length === 0
IsBlank(str) == Trim(str) = <<>>

\* item.transform[5] + fontSize * 0.8
VisualTop(item) == item.transform[6] + (FontSizeOf(item) * 8) \div 10

\* (mutant) the band test left out
IsEdgeAlways(y, height) == TRUE

\* y < FOOTER_HEIGHT || y > pageHeight - HEADER_HEIGHT
IsEdge(y, height) == y < FOOTER_HEIGHT * Unit \/ y > height - HEADER_HEIGHT * Unit

\* itemFontSize < baseFontSize * 0.9
IsSmallFont(item, base) == FontSizeOf(item) * 10 < base * 9

\* lines 713-749: the run gets past every `continue`
Survives(item, height, base) ==
  /\ ~IsBlank(item.str)
  /\ IsEdge(VisualTop(item), height) =>
       /\ ~MatchesIgnorePatterns(Trim(item.str))
       /\ ~IsSmallFont(item, base)
  /\ ~MatchesAboutBlank(item.str)

TextLine(y, its) == [y |-> y, type |-> "text", items |-> its, imageId |-> <<>>]
ImageLine(y, id) == [y |-> y, type |-> "image", items |-> <<>>, imageId |-> id]

\* (mutant) the tolerance included
IsNearOrAtTolerance(l, y) == l.type = "text" /\ Abs(l.y - y) <= Y_TOLERANCE * Unit

\* (mutant) a tolerance of 3
IsNearThree(l, y) == l.type = "text" /\ Abs(l.y - y) < 3 * Unit

\* l.type === 'text' && Math.abs(l.y - y) < Y_TOLERANCE
IsNear(l, y) == l.type = "text" /\ Abs(l.y - y) < Y_TOLERANCE * Unit

\* lines 751-756: lines.find, else a new line; the run goes into the line
PutInLine(ls, k, y) ==
  IF \E j \in 1..Len(ls) : IsNear(ls[j], y)
  THEN LET found == CHOOSE j \in 1..Len(ls) :
                      IsNear(ls[j], y) /\ \A m \in 1..(j - 1) : ~IsNear(ls[m], y)
       IN [ls EXCEPT ![found].items = Append(@, k)]
  ELSE Append(ls, TextLine(y, <<k>>))

\* lines 711-757: one iteration of the loop over the runs; a line holds its
\* runs by reference, here by their index in items
GroupItem ==
  /\ pc = "group"
  /\ lines' = IF Survives(items[n], pageHeight, baseFontSize)
              THEN PutInLine(lines, n, VisualTop(items[n]))
              ELSE lines
  /\ n' = n + 1
  /\ pc' = IF n + 1 <= Len(items) THEN "group" ELSE "images"
  /\ UNCHANGED <<pageNumber, pageHeight, items, ops, fontSizes, baseFontSize>>
  /\ UNCHANGED <<trackerVars, emitVars, callVars, secondVars, appVars>>

\* the runs of the filter inputs: in the footer band, between the bands, in
\* the header band; of size 12 or 10
SPage3 == <<80, 97, 103, 101, 32, 51>>                              \* "Page 3"
SHello == <<104, 101, 108, 108, 111>>                               \* "hello"
SAboutBlank == <<65, 98, 111, 117, 116, 58, 98, 108, 97, 110, 107>> \* "About:blank"
SBlank == <<32>>                                                    \* " "
SOneOfTen == <<49, 32, 47, 32, 49, 48>>                             \* "1 / 10"
SDomain == <<32, 97, 46, 67, 111, 109>>                             \* " a.Com"

FilterRuns ==
  { Run(str, 0, y, Unit, h, 50 * Unit) :
      str \in {SPage3, SHello, SAboutBlank, SBlank, SOneOfTen, SDomain},
      y \in {50 * Unit, 400 * Unit, 725 * Unit},
      h \in {12 * Unit, 10 * Unit} }

SBody == <<112, 108, 97, 105, 110, 32, 98, 111, 100, 121, 32, 116, 101, 120, 116>>   \* "plain body text"
BodyRun == Run(SBody, 0, 500 * Unit, Unit, 12 * Unit, 300 * Unit)

\* at most MaxFilterRuns of these runs, alone or after a run of body text
FilterPages ==
  { Page(before \o its, <<>>, 800 * Unit) :
      before \in {<<>>, <<BodyRun>>}, its \in SeqsUpTo(FilterRuns, MaxFilterRuns) }

NextFilter == StartPage(FilterPages) \/ EstimateBase \/ GroupItem

SpecFilter == Init /\ [][NextFilter]_vars

\* ---------------------------------------------------- filter: claims
\* the runs the clustering loop is past
Decided == IF pc \in {"start", "font", "ops"} THEN {} ELSE 1..(n - 1)

Kept(k) == \E j \in 1..Len(lines) : \E m \in 1..Len(lines[j].items) : lines[j].items[m] = k

InFooterBand(item) == 10 * item.transform[6] + 8 * FontSizeOf(item) < 10 * FOOTER_HEIGHT * Unit
InHeaderBand(item) ==
  10 * item.transform[6] + 8 * FontSizeOf(item) > 10 * (pageHeight - HEADER_HEIGHT * Unit)

\* C7: a run with non-blank content is dropped if and only if it matches
\* about:blank, or its visual top is in the footer or the header band and it
\* matches a boilerplate pattern or is smaller than 0.9 x the base font size.
C7_FilterDecision ==
  \A k \in Decided :
    ~IsBlank(items[k].str) =>
      (~Kept(k) <=>
         \/ MatchesAboutBlank(items[k].str)
         \/ /\ InFooterBand(items[k]) \/ InHeaderBand(items[k])
            /\ \/ MatchesIgnorePatterns(Trim(items[k].str))
               \/ 10 * FontSizeOf(items[k]) < 9 * baseFontSize)

\* "Page 3" in the footer band, smaller than 0.9 x the base size 12, is
\* dropped, and "Page 3" between the bands is kept
C7_Witness ==
  /\ pc = "images"
  /\ baseFontSize = 12 * Unit
  /\ \E k \in Decided :
       /\ items[k].str = SPage3
       /\ InFooterBand(items[k])
       /\ items[k].height = 10 * Unit
       /\ ~Kept(k)
  /\ \E k \in Decided :
       /\ items[k].str = SPage3
       /\ ~InFooterBand(items[k])
       /\ ~InHeaderBand(items[k])
       /\ Kept(k)

\* ------------------------------------- 4. image lines, reading order
\* img.y < 20 || img.y > pageHeight - 20
IsAtPageEdge(y, height) == y < IMAGE_EDGE * Unit \/ y > height - IMAGE_EDGE * Unit

RECURSIVE ImageLines(_, _)
ImageLines(infos, height) ==
  IF infos = <<>> THEN <<>>
  ELSE (IF IsAtPageEdge(Head(infos).y, height) THEN <<>>
        ELSE <<ImageLine(Head(infos).y, Head(infos).id)>>)
       \o ImageLines(Tail(infos), height)

\* (mutant) the comparator the other way round: a.y - b.y
ComesBeforeAscending(a, b) == a.y < b.y

\* (a, b) => b.y - a.y is negative: a sorts before b
ComesBefore(a, b) == a.y > b.y

\* Array.prototype.sort is stable: an element goes after the elements that do
\* not sort after it
RECURSIVE InsertLine(_, _)
InsertLine(sorted, l) ==
  IF sorted = <<>> THEN <<l>>
  ELSE IF ComesBefore(l, Head(sorted)) THEN <<l>> \o sorted
  ELSE <<Head(sorted)>> \o InsertLine(Tail(sorted), l)

RECURSIVE SortLines(_, _)
SortLines(sorted, rest) ==
  IF rest = <<>> THEN sorted
  ELSE SortLines(InsertLine(sorted, Head(rest)), Tail(rest))

\* lines 760-775: the image lines are pushed, then all lines are sorted
AddImagesAndSort ==
  /\ pc = "images"
  /\ lines' = SortLines(<<>>, lines \o ImageLines(imageInfos, pageHeight))
  /\ pc' = "process"
  /\ UNCHANGED <<pageNumber, pageHeight, items, ops, fontSizes, baseFontSize, n>>
  /\ UNCHANGED <<trackerVars, emitVars, callVars, secondVars, appVars>>

\* ------------------------------------- 5. line assembly, heading detection
\* (mutant) the run put first, wherever it is
InsertByXFirst(sorted, k, its) == <<k>> \o sorted

RECURSIVE InsertByX(_, _, _)
InsertByX(sorted, k, its) ==
  IF sorted = <<>> THEN <<k>>
  ELSE IF its[k].transform[5] < its[Head(sorted)].transform[5] THEN <<k>> \o sorted
  ELSE <<Head(sorted)>> \o InsertByX(Tail(sorted), k, its)

\* line.items.sort((a, b) => a.transform[4] - b.transform[4])
RECURSIVE SortByX(_, _, _)
SortByX(sorted, rest, its) ==
  IF rest = <<>> THEN sorted
  ELSE SortByX(InsertByX(sorted, Head(rest), its), Tail(rest), its)

\* item.width || 0
WidthOf(item) == item.width

\* item.height || item.transform[3] || baseFontSize
SpacingFontSize(item, base) ==
  IF item.height # 0 THEN item.height
  ELSE IF item.transform[4] # 0 THEN item.transform[4]
  ELSE base

\* lines 801-822: the loop over the line's runs, from the state acc
RECURSIVE AssembleLine(_, _, _, _)
AssembleLine(ks, its, base, acc) ==
  IF ks = <<>> THEN acc
  ELSE LET item == its[Head(ks)]
           itemX == item.transform[5]
           xEnd == itemX + WidthOf(item)
           gap == itemX - acc.lastXEnd
           spaced == acc.lastXEnd >= 0 /\ 4 * gap > SpacingFontSize(item, base)
       IN AssembleLine(Tail(ks), its, base,
            [lineStr |-> acc.lineStr \o (IF spaced THEN <<32>> ELSE <<>>) \o item.str,
             lastXEnd |-> xEnd,
             startX |-> IF acc.startX = -Unit \/ itemX < acc.startX THEN itemX ELSE acc.startX,
             endX |-> IF xEnd > acc.endX THEN xEnd ELSE acc.endX])

Assembled(ks, its, base) ==
  AssembleLine(ks, its, base,
               [lineStr |-> <<>>, lastXEnd |-> -Unit, startX |-> -Unit, endX |-> -Unit])

\* i.height || i.transform[3] || 0
HeadingFontSize(item) ==
  IF item.height # 0 THEN item.height ELSE item.transform[4]

\* Math.max(...line.items.map(...))
MaxLineFontSize(ks, its) == MaxOfSeq([j \in 1..Len(ks) |-> HeadingFontSize(its[ks[j]])])

H1 == <<35, 32>>             \* "# "
H2 == <<35, 35, 32>>         \* "## "
H3 == <<35, 35, 35, 32>>     \* "### "

\* (mutant) > for >= at the three thresholds
HeadingPrefixStrict(size, base) ==
  IF Abs(size - base) > Unit
  THEN IF 10 * size > 18 * base THEN H1
       ELSE IF 10 * size > 14 * base THEN H2
       ELSE IF 100 * size > 115 * base THEN H3
       ELSE <<>>
  ELSE <<>>

\* lines 829-839
HeadingPrefix(size, base) ==
  IF Abs(size - base) > Unit
  THEN IF 10 * size >= 18 * base THEN H1
       ELSE IF 10 * size >= 14 * base THEN H2
       ELSE IF 100 * size >= 115 * base THEN H3
       ELSE <<>>
  ELSE <<>>

\* lines 793-842: one line of the map
ProcessLine(l, its, base) ==
  IF l.type = "image"
  THEN [type |-> "image", text |-> <<>>, prefix |-> <<>>, lineWidth |-> 0, data |-> l]
  ELSE LET ks == SortByX(<<>>, l.items, its)
           a == Assembled(ks, its, base)
       IN [type |-> "text", text |-> a.lineStr,
           prefix |-> HeadingPrefix(MaxLineFontSize(ks, its), base),
           lineWidth |-> a.endX - a.startX,
           data |-> [l EXCEPT !.items = ks]]

\* if (lineWidth > maxLineWidth) maxLineWidth = lineWidth, over the lines
RECURSIVE MaxWidth(_, _)
MaxWidth(pls, max) ==
  IF pls = <<>> THEN max
  ELSE MaxWidth(Tail(pls),
                IF Head(pls).type = "text" /\ Head(pls).lineWidth > max
                THEN Head(pls).lineWidth ELSE max)

\* lines 792-842: the first pass; the sort of a line's runs is in place
ProcessLines ==
  /\ pc = "process"
  /\ processedLines' = [j \in 1..Len(lines) |-> ProcessLine(lines[j], items, baseFontSize)]
  /\ lines' = [j \in 1..Len(lines) |-> processedLines'[j].data]
  /\ maxLineWidth' = MaxWidth(processedLines', 0)
  /\ pageText' = <<>>
  /\ currentParagraph' = <<>>
  /\ index' = 1
  /\ emitted' = <<>>
  /\ pc' = IF lines # <<>> THEN "emit" ELSE "flush"
  /\ UNCHANGED <<pageNumber, pageHeight, items, ops, fontSizes, baseFontSize, n, parts>>
  /\ UNCHANGED <<trackerVars, fragments, callVars, secondVars, appVars>>

\* ------------------------------------------------ 5. paragraph assembly
BlankLine == <<10, 10>>                                  \* "\n\n"

\* `![Image](${src})\n\n`; the URL is "blob:" and its number
ImageMarkdown(src) ==
  <<33, 91, 73, 109, 97, 103, 101, 93, 40>> \o <<98, 108, 111, 98, 58, 48 + src>> \o <<41>>
    \o BlankLine

\* (mutant) the ideographs left out
isCJKPunctuationOnly(char) == char \in 12288..12351 \/ char \in 65280..65519

\* /[一-龥　-〿＀-￯]/
isCJK(char) == char \in 19968..40869 \/ char \in 12288..12351 \/ char \in 65280..65519

\* (mutant) the width of the line itself, not of the line before
IsShortLineOwn(pls, at, max) == 100 * pls[at].lineWidth < 85 * max

\* prevWidth < maxLineWidth * 0.85, prevWidth the width of the line before
IsShortLine(pls, at, max) == 100 * pls[at - 1].lineWidth < 85 * max

\* pageImages.find(i => i.id === id)?.src, 0 when there is none
SrcOf(images, id) ==
  IF \E j \in 1..Len(images) : images[j].id = id
  THEN images[CHOOSE j \in 1..Len(images) :
                images[j].id = id /\ \A m \in 1..(j - 1) : images[m].id # id].src
  ELSE 0

\* (mutant) the line takes the place of the paragraph
MergedOver(paragraph, text) == text

\* lines 886-898
Merged(paragraph, text) ==
  LET lastChar == paragraph[Len(paragraph)]
      firstChar == text[1]
  IN IF isCJK(lastChar) /\ isCJK(firstChar) THEN paragraph \o text
     ELSE IF lastChar = 32 \/ firstChar = 32 THEN paragraph \o text
     ELSE paragraph \o <<32>> \o text

\* (mutant) the open paragraph dropped
FlushedNothing(text, paragraph) == text

\* (mutant) the paragraph without the blank line after it
FlushedBare(text, paragraph) == text \o paragraph

\* pageText += currentParagraph + '\n\n', if (currentParagraph)
Flushed(text, paragraph) ==
  IF paragraph # <<>> THEN text \o paragraph \o BlankLine ELSE text

\* lines 851-902: one iteration of the loop over the processed lines
EmitLine ==
  /\ pc = "emit"
  /\ LET line == processedLines[index]
         src == SrcOf(pageImages, line.data.imageId)
     IN IF line.type = "image"
        THEN /\ pageText' = Flushed(pageText, currentParagraph)
                              \o (IF src # 0 THEN ImageMarkdown(src) ELSE <<>>)
             /\ currentParagraph' = <<>>
             /\ emitted' = IF src # 0 THEN Append(emitted, line.data) ELSE emitted
        ELSE /\ emitted' = Append(emitted, line.data)
             /\ IF line.prefix # <<>>
                THEN /\ pageText' = Flushed(pageText, currentParagraph)
                                      \o line.prefix \o line.text \o BlankLine
                     /\ currentParagraph' = <<>>
                ELSE IF currentParagraph = <<>>
                THEN /\ currentParagraph' = line.text
                     /\ pageText' = pageText
                ELSE IF IsShortLine(processedLines, index, maxLineWidth)
                THEN /\ pageText' = pageText \o currentParagraph \o BlankLine
                     /\ currentParagraph' = line.text
                ELSE /\ currentParagraph' = Merged(currentParagraph, line.text)
                     /\ pageText' = pageText
  /\ index' = index + 1
  /\ pc' = IF index + 1 <= Len(processedLines) THEN "emit" ELSE "flush"
  /\ UNCHANGED <<pageNumber, pageHeight, items, ops, fontSizes, baseFontSize>>
  /\ UNCHANGED <<trackerVars, groupVars, processedLines, maxLineWidth, parts>>
  /\ UNCHANGED <<fragments, callVars, secondVars, appVars>>

\* lines 904-910: the open paragraph, then the page's fragment
FlushPage ==
  /\ pc = "flush"
  /\ pageText' = Flushed(pageText, currentParagraph)
  /\ parts' = IF Trim(pageText') # <<>> THEN Append(parts, pageText') ELSE parts
  /\ fragments' = Append(fragments, pageText')
  /\ pc' = "done"
  /\ UNCHANGED <<pageNumber, pageHeight, items, ops, fontSizes, baseFontSize>>
  /\ UNCHANGED <<trackerVars, groupVars, callVars, secondVars, appVars>>
  /\ UNCHANGED <<processedLines, maxLineWidth, currentParagraph, index, emitted>>

\* ------------------------------------------------------------ input sets
\* the heading inputs: no body text, or body text of size 12, 10 or 5; runs
\* of these sizes (0: neither height nor transform[3]) on two baselines, 10
\* apart so that a run of size 24 and one of size 12 can share a line
STitle == <<84, 105, 116, 108, 101>>                     \* "Title"

HeadingSizes ==
  {0, 6 * Unit, 11 * Unit + Half, 13 * Unit, 13 * Unit + Half, 14 * Unit, 15 * Unit,
   17 * Unit, 18 * Unit, 21 * Unit + Half, 24 * Unit}

HeadingRuns ==
  { Run(STitle, x, y, 0, h, 40 * Unit) :
      x \in {100 * Unit}, y \in {600 * Unit, 590 * Unit}, h \in HeadingSizes }

BodyOfSize(h) == Run(SBody, 0, 500 * Unit, 0, h, 300 * Unit)

HeadingPages ==
  { Page(before \o its, <<>>, 800 * Unit) :
      before \in {<<>>, <<BodyOfSize(12 * Unit)>>, <<BodyOfSize(10 * Unit)>>,
                  <<BodyOfSize(5 * Unit)>>},
      its \in SeqsUpTo(HeadingRuns, MaxHeadingRuns) }

NextHeading ==
  StartPage(HeadingPages) \/ EstimateBase \/ GroupItem \/ AddImagesAndSort \/ ProcessLines

SpecHeading == Init /\ [][NextHeading]_vars

\* an image whose visual top the tracker puts at y
ImageAt(y) ==
  << Op("save", <<>>), Op("transform", ScaleBy(100 * Unit, y)),
     Op("paintImageXObject", <<>>), Op("restore", <<>>) >>

RECURSIVE Flatten(_)
Flatten(ss) == IF ss = <<>> THEN <<>> ELSE Head(ss) \o Flatten(Tail(ss))

\* the paragraph inputs: one run a line, the k-th line 20 below the one
\* before; a line is wide or half as wide, of the body size or, for one
\* string, twice that; a wide line that ends with a tab; no image, or one
\* between the first two lines
SNiHao == <<20320, 22909>>                               \* "你好"
SShiJie == <<19990, 30028>>                              \* "世界"
SWorld == <<119, 111, 114, 108, 100>>                    \* "world"
SASpace == <<97, 32>>                                    \* "a "
SSpaceB == <<32, 98>>                                    \* " b"
SATab == <<97, 9>>                                       \* "a\t"

ParaShapes ==
  { [str |-> str, width |-> w, height |-> 12 * Unit] :
      str \in {SNiHao, SShiJie, SHello, SWorld, SASpace, SSpaceB},
      w \in {100 * Unit, 50 * Unit} }
  \cup { [str |-> SHello, width |-> 100 * Unit, height |-> 24 * Unit] }
  \cup { [str |-> SATab, width |-> 100 * Unit, height |-> 12 * Unit] }

ParaRuns(shapes) ==
  [k \in 1..Len(shapes) |->
     Run(shapes[k].str, 0, (700 - 20 * k) * Unit, 0, shapes[k].height, shapes[k].width)]

ParaPages ==
  { Page(ParaRuns(shapes), os, 800 * Unit) :
      shapes \in SeqsUpTo(ParaShapes, MaxParaLines),
      os \in {<<>>, ImageAt(680 * Unit)} }

\* the reading order inputs: runs whose visual tops are 700, 698 and 650, in
\* any order, and images whose visual tops are 710, 650 and 10
OrderRuns ==
  { Run(Sa, 0, y, 0, 10 * Unit, 10 * Unit) : y \in {692 * Unit, 690 * Unit, 642 * Unit} }

OrderPages ==
  { Page(its, Flatten(images), 800 * Unit) :
      its \in SeqsUpTo(OrderRuns, MaxOrderRuns),
      images \in SeqsUpTo({ImageAt(710 * Unit), ImageAt(650 * Unit), ImageAt(10 * Unit)},
                          MaxImages) }

Pages == ParaPages \cup OrderPages

Next ==
  \/ StartPage(Pages)
  \/ EstimateBase
  \/ ReplayOp
  \/ GroupItem
  \/ AddImagesAndSort
  \/ ProcessLines
  \/ EmitLine
  \/ FlushPage

Spec == Init /\ [][Next]_vars

\* ------------------------------------------------ 6. the whole conversion
\* (mutant) the fragments one after the other, nothing between them
JoinPlain(ps, sep) == Flatten(ps)

\* Array.prototype.join
RECURSIVE Join(_, _)
Join(ps, sep) ==
  IF ps = <<>> THEN <<>>
  ELSE IF Len(ps) = 1 THEN ps[1]
  ELSE ps[1] \o sep \o Join(Tail(ps), sep)

Range(s) == {s[k] : k \in 1..Len(s)}

\* (mutant) the registry emptied without a revocation
clearBlobUrlsOnly(done, urls) == done

\* lines 73-79: every URL of the registry is revoked
clearBlobUrls(done, urls) == done \cup Range(urls)

\* setError('Failed to convert PDF to MD')
PdfFailed == "Failed to convert PDF to MD"

\* what getDocument, getPage, getTextContent and getOperatorList reject with:
\* errors of pdf.js, which the code passes on as they are
SourceErrors == { [name |-> "InvalidPDFException"], [name |-> "UnknownErrorException"] }

\* the hook before a call: nothing converted yet, or one image of an earlier
\* conversion published and its URL in the registry
HookIdle ==
  /\ pc = "idle"
  /\ pageNumber = 0
  /\ pageHeight = 0
  /\ items = <<>>
  /\ ops = <<>>
  /\ fontSizes = <<>>
  /\ baseFontSize = 0
  /\ ctm = Identity
  /\ transformStack = <<>>
  /\ i = 1
  /\ imageInfos = <<>>
  /\ pageImages = <<>>
  /\ \E earlier \in 0..1 :
       /\ urlCount = earlier
       /\ activeUrls = [k \in 1..earlier |-> k]
       /\ extractedImages = [k \in 1..earlier |-> [src |-> k, id |-> ImgId(1, k)]]
  /\ lines = <<>>
  /\ n = 1
  /\ processedLines = <<>>
  /\ maxLineWidth = 0
  /\ pageText = <<>>
  /\ currentParagraph = <<>>
  /\ index = 1
  /\ parts = <<>>
  /\ emitted = <<>>
  /\ fragments = <<>>
  /\ allExtractedImages = <<>>
  /\ numPages = 0
  /\ revoked = {}
  /\ result = <<>>
  /\ thrown = Nothing
  /\ isConverting = FALSE
  /\ error = NoError
  /\ SecondIdle

InitDoc == HookIdle /\ AppFresh

\* lines 461-468: the call, up to the first await
Call ==
  /\ pc = "idle"
  /\ isConverting' = TRUE
  /\ error' = NoError
  /\ extractedImages' = <<>>
  /\ revoked' = clearBlobUrls(revoked, activeUrls)
  /\ activeUrls' = <<>>
  /\ allExtractedImages' = <<>>
  /\ pc' = "open"
  /\ UNCHANGED <<pageNumber, pageHeight, items, ops, fontSizes, baseFontSize>>
  /\ UNCHANGED <<ctm, transformStack, i, imageInfos, pageImages, urlCount>>
  /\ UNCHANGED <<groupVars, emitVars, numPages, result, thrown, secondVars, appVars>>

\* lines 473-478: the document is open
OpenDocument ==
  /\ pc = "open"
  /\ numPages' \in 1..MaxPages
  /\ parts' = <<>>
  /\ pageNumber' = 0
  /\ pc' = "start"
  /\ UNCHANGED <<pageHeight, items, ops, fontSizes, baseFontSize>>
  /\ UNCHANGED <<trackerVars, groupVars>>
  /\ UNCHANGED <<processedLines, maxLineWidth, pageText, currentParagraph, index, emitted,
                 fragments>>
  /\ UNCHANGED <<extractedImages, revoked, result, thrown, error, isConverting>>
  /\ UNCHANGED <<secondVars, appVars>>

\* line 478: pageNumber <= pdf.numPages holds, the body is entered again with
\* fresh locals
NextPage ==
  /\ pc = "done"
  /\ pageNumber < numPages
  /\ lines' = <<>>
  /\ n' = 1
  /\ pc' = "start"
  /\ UNCHANGED <<pageNumber, pageHeight, items, ops, fontSizes, baseFontSize>>
  /\ UNCHANGED <<trackerVars, emitVars, callVars, secondVars, appVars>>

\* lines 913-914 and 921-923: the loop is over
Return ==
  /\ pc = "done"
  /\ pageNumber = numPages
  /\ extractedImages' = allExtractedImages
  /\ result' = Join(parts, BlankLine)
  /\ isConverting' = FALSE
  /\ pc' = "returned"
  /\ UNCHANGED <<pageNumber, pageHeight, items, ops, fontSizes, baseFontSize>>
  /\ UNCHANGED <<trackerVars, groupVars, emitVars, numPages, revoked, thrown, error>>
  /\ UNCHANGED <<secondVars, appVars>>

\* lines 915-923: getDocument (pc "open"), getPage or getTextContent (pc
\* "start", the loop counter at the page asked for) or getOperatorList (pc
\* "font") rejects; the catch clears the registry and throws the error on
SourceFails ==
  /\ pc \in {"open", "start", "font"}
  /\ pageNumber' = IF pc = "start" THEN pageNumber + 1 ELSE pageNumber
  /\ \E err \in SourceErrors : thrown' = err
  /\ isConverting' = FALSE
  /\ error' = PdfFailed
  /\ revoked' = clearBlobUrls(revoked, activeUrls)
  /\ activeUrls' = <<>>
  /\ pc' = "failed"
  /\ UNCHANGED <<pageHeight, items, ops, fontSizes, baseFontSize>>
  /\ UNCHANGED <<ctm, transformStack, i, imageInfos, pageImages, urlCount, allExtractedImages>>
  /\ UNCHANGED <<groupVars, emitVars, numPages, extractedImages, result, secondVars, appVars>>

\* the pages of the document inputs: no run; one line; two lines that merge,
\* CJK and Latin; a run the filter drops; an image above a line; the same image
\* twice; a title of twice the body size above a line
DocPages ==
  { Page(<<>>, <<>>, 800 * Unit),
    Page(<<Run(SHello, 0, 688 * Unit, 0, 12 * Unit, 100 * Unit)>>, <<>>, 800 * Unit),
    Page(<<Run(SNiHao, 0, 688 * Unit, 0, 12 * Unit, 100 * Unit),
           Run(SShiJie, 0, 668 * Unit, 0, 12 * Unit, 100 * Unit)>>, <<>>, 800 * Unit),
    Page(<<Run(SHello, 0, 688 * Unit, 0, 12 * Unit, 100 * Unit),
           Run(SWorld, 0, 668 * Unit, 0, 12 * Unit, 100 * Unit)>>, <<>>, 800 * Unit),
    Page(<<Run(SAboutBlank, 0, 688 * Unit, 0, 12 * Unit, 100 * Unit)>>, <<>>, 800 * Unit),
    Page(<<Run(SWorld, 0, 688 * Unit, 0, 12 * Unit, 100 * Unit)>>,
         ImageAt(710 * Unit), 800 * Unit),
    Page(<<>>, ImageAt(710 * Unit) \o ImageAt(650 * Unit), 800 * Unit),
    Page(<<Run(Sa, 0, 708 * Unit, 0, 24 * Unit, 100 * Unit),
           Run(SHello, 0, 688 * Unit, 0, 12 * Unit, 100 * Unit)>>, <<>>, 800 * Unit) }

NextDoc ==
  \/ Call
  \/ OpenDocument
  \/ StartPage(DocPages)
  \/ EstimateBase
  \/ ReplayOp
  \/ GroupItem
  \/ AddImagesAndSort
  \/ ProcessLines
  \/ EmitLine
  \/ FlushPage
  \/ NextPage
  \/ Return
  \/ SourceFails

SpecDoc == InitDoc /\ [][NextDoc]_vars

\* ------------------------------------- 7. two calls on the same hook
\* setError('Failed to convert DOCX to MD')
DocxFailed == "Failed to convert DOCX to MD"

\* `img_${Date.now()}_${imgCounter}`, or the identifier of a PDF image
SecondId(k) == <<0, k>>

\* lines 86-91 (convertDocxToMd) and 461-465 (convertPdfToMd): a second call
\* on the hook, up to its first await
SecondCall ==
  /\ second = "none"
  /\ second' = "running"
  /\ isConverting' = TRUE
  /\ secondKind' \in {"pdf", "docx"}
  /\ secondImages' = <<>>
  /\ error' = NoError
  /\ extractedImages' = <<>>
  /\ revoked' = clearBlobUrls(revoked, activeUrls)
  /\ activeUrls' = <<>>
  /\ UNCHANGED <<pc, pageNumber, pageHeight, items, ops, fontSizes, baseFontSize>>
  /\ UNCHANGED <<ctm, transformStack, i, imageInfos, pageImages, urlCount, allExtractedImages>>
  /\ UNCHANGED <<groupVars, emitVars, numPages, result, thrown, appVars>>

\* lines 133-148 and 674-686: the second call has an image
SecondRegisters ==
  /\ second = "running"
  /\ Len(secondImages) < MaxSecondImages
  /\ urlCount' = urlCount + 1
  /\ activeUrls' = registerBlobUrl(activeUrls, urlCount + 1)
  /\ secondImages' = Append(secondImages, urlCount + 1)
  /\ UNCHANGED <<pc, pageNumber, pageHeight, items, ops, fontSizes, baseFontSize>>
  /\ UNCHANGED <<ctm, transformStack, i, imageInfos, pageImages, allExtractedImages>>
  /\ UNCHANGED <<groupVars, emitVars, callVars, second, secondKind, appVars>>

\* lines 174 and 424, 913-914: the second call publishes its images and
\* returns its Markdown
SecondReturns ==
  /\ second = "running"
  /\ second' = "returned"
  /\ isConverting' = FALSE
  /\ extractedImages' =
       [k \in 1..Len(secondImages) |-> [src |-> secondImages[k], id |-> SecondId(k)]]
  /\ UNCHANGED <<pc, pageNumber, pageHeight, items, ops, fontSizes, baseFontSize>>
  /\ UNCHANGED <<trackerVars, groupVars, emitVars, secondKind, secondImages, appVars>>
  /\ UNCHANGED <<numPages, revoked, result, thrown, error>>

\* lines 425-436: a failing convertDocxToMd revokes its own images;
\* lines 915-920: a failing convertPdfToMd clears the registry
SecondFails ==
  /\ second = "running"
  /\ second' = "failed"
  /\ isConverting' = FALSE
  /\ IF secondKind = "pdf"
     THEN /\ revoked' = clearBlobUrls(revoked, activeUrls)
          /\ activeUrls' = <<>>
          /\ error' = PdfFailed
     ELSE /\ revoked' = revoked \cup Range(secondImages)
          /\ activeUrls' = activeUrls
          /\ error' = DocxFailed
  /\ UNCHANGED <<pc, pageNumber, pageHeight, items, ops, fontSizes, baseFontSize>>
  /\ UNCHANGED <<ctm, transformStack, i, imageInfos, pageImages, urlCount, allExtractedImages>>
  /\ UNCHANGED <<groupVars, emitVars, secondKind, secondImages, appVars>>
  /\ UNCHANGED <<numPages, extractedImages, result, thrown>>

\* the pages of the two-call inputs: an image above a line; one line
ConcurrentPages ==
  { Page(<<Run(SWorld, 0, 688 * Unit, 0, 12 * Unit, 100 * Unit)>>,
         ImageAt(710 * Unit), 800 * Unit),
    Page(<<Run(SHello, 0, 688 * Unit, 0, 12 * Unit, 100 * Unit)>>, <<>>, 800 * Unit) }

NextConcurrent ==
  \/ Call
  \/ OpenDocument
  \/ StartPage(ConcurrentPages)
  \/ EstimateBase
  \/ ReplayOp
  \/ GroupItem
  \/ AddImagesAndSort
  \/ ProcessLines
  \/ EmitLine
  \/ FlushPage
  \/ NextPage
  \/ Return
  \/ SourceFails
  \/ SecondCall
  \/ SecondRegisters
  \/ SecondReturns
  \/ SecondFails

SpecConcurrent == InitDoc /\ [][NextConcurrent]_vars

\* ------------------------------------------------- Blob URL life: claim
\* the numbers of the Blob URLs a Markdown text refers to
UrlsIn(md) ==
  { md[k + 5] - 48 : k \in {m \in 1..(Len(md) - 5) :
                             SubSeq(md, m, m + 4) = <<98, 108, 111, 98, 58>>} }

SrcsOf(table) == { table[k].src : k \in 1..Len(table) }

\* C20: when a conversion returns, every Blob URL its Markdown and the
\* published extractedImages refer to is in the registry and not revoked,
\* whatever a second call on the hook has done in the meantime.
C20_NoPrematureRevocation ==
  [][/\ (pc # "returned" /\ pc' = "returned") =>
          \A u \in UrlsIn(result') \cup SrcsOf(extractedImages') :
            u \in Range(activeUrls') /\ u \notin revoked'
     /\ (second # "returned" /\ second' = "returned") =>
          \A u \in Range(secondImages') \cup SrcsOf(extractedImages') :
            u \in Range(activeUrls') /\ u \notin revoked']_vars

\* --------------------------------------------------- 8. App: auto-save
\* what the editor can hold, and what a document can be called
Contents == {"", "a", "b"}
Names == {"document", "x", "y"}

\* App.tsx lines 77-91 and 101-103: the App starts from what localStorage holds
InitApp ==
  /\ HookIdle
  /\ \E content \in {Missing, "a"} :
       /\ storedContent = content
       /\ storedName = IF content = Missing THEN Missing ELSE "x"
       /\ markdown = IF content = Missing THEN "" ELSE content
       /\ fileName = IF content = Missing THEN "document" ELSE "x"
  /\ saveStatus = "saved"
  /\ timer = FALSE
  /\ upload = "none"

\* App.tsx lines 119-130, up to setTimeout: the pending timeout is cleared and
\* a new one set
scheduleAutoSave ==
  /\ saveStatus' = "saving"
  /\ timer' = TRUE

\* App.tsx lines 702-706: the editor's onChange
Type ==
  /\ \E v \in Contents : markdown' = v
  /\ scheduleAutoSave
  /\ UNCHANGED <<fileName, storedContent, storedName, upload>>
  /\ UNCHANGED <<pc, pageNumber, pageHeight, items, ops, fontSizes, baseFontSize>>
  /\ UNCHANGED <<trackerVars, groupVars, emitVars, callVars, secondVars>>

\* App.tsx lines 518-522: the name field's onChange
Rename ==
  /\ \E v \in Names : fileName' = v
  /\ scheduleAutoSave
  /\ UNCHANGED <<markdown, storedContent, storedName, upload>>
  /\ UNCHANGED <<pc, pageNumber, pageHeight, items, ops, fontSizes, baseFontSize>>
  /\ UNCHANGED <<trackerVars, groupVars, emitVars, callVars, secondVars>>

\* App.tsx lines 241-262: processFile up to its await; a file of another
\* type than docx, md and pdf ends it at line 256
UploadStart ==
  /\ upload = "none"
  /\ \E name \in Names : fileName' = name
  /\ \E type \in {"docx", "md", "pdf", "none"} : upload' = type
  /\ UNCHANGED <<markdown, saveStatus, timer, storedContent, storedName>>
  /\ UNCHANGED <<pc, pageNumber, pageHeight, items, ops, fontSizes, baseFontSize>>
  /\ UNCHANGED <<trackerVars, groupVars, emitVars, callVars, secondVars>>

\* App.tsx lines 263-282: the conversion has resolved
UploadDone ==
  /\ upload # "none"
  /\ \E md \in Contents : markdown' = md
  /\ scheduleAutoSave
  /\ upload' = "none"
  /\ UNCHANGED <<fileName, storedContent, storedName>>
  /\ UNCHANGED <<pc, pageNumber, pageHeight, items, ops, fontSizes, baseFontSize>>
  /\ UNCHANGED <<trackerVars, groupVars, emitVars, callVars, secondVars>>

\* App.tsx lines 283-288: the conversion has rejected
UploadFails ==
  /\ upload # "none"
  /\ upload' = "none"
  /\ UNCHANGED <<markdown, fileName, saveStatus, timer, storedContent, storedName>>
  /\ UNCHANGED <<pc, pageNumber, pageHeight, items, ops, fontSizes, baseFontSize>>
  /\ UNCHANGED <<trackerVars, groupVars, emitVars, callVars, secondVars>>

\* App.tsx lines 123-129: the timeout's callback
TimerFires ==
  /\ timer
  /\ storedContent' = markdown
  /\ storedName' = fileName
  /\ saveStatus' = "saved"
  /\ timer' = FALSE
  /\ UNCHANGED <<markdown, fileName, upload>>
  /\ UNCHANGED <<pc, pageNumber, pageHeight, items, ops, fontSizes, baseFontSize>>
  /\ UNCHANGED <<trackerVars, groupVars, emitVars, callVars, secondVars>>

\* App.tsx lines 400-417
clearAll ==
  /\ markdown' = ""
  /\ fileName' = "document"
  /\ saveStatus' = "saved"
  /\ timer' = FALSE
  /\ storedContent' = Missing
  /\ storedName' = Missing
  /\ UNCHANGED upload
  /\ UNCHANGED <<pc, pageNumber, pageHeight, items, ops, fontSizes, baseFontSize>>
  /\ UNCHANGED <<trackerVars, groupVars, emitVars, callVars, secondVars>>

NextApp ==
  \/ Type
  \/ Rename
  \/ UploadStart
  \/ UploadDone
  \/ UploadFails
  \/ TimerFires
  \/ clearAll

\* a pending timeout fires when no change restarts it; a conversion ends
SpecApp ==
  /\ InitApp
  /\ [][NextApp]_vars
  /\ WF_vars(TimerFires)
  /\ WF_vars(UploadDone \/ UploadFails)

\* ------------------------------------------------------ auto-save: claim
\* nothing to save: the state clearAll leaves
Cleared ==
  /\ markdown = ""
  /\ fileName = "document"
  /\ storedContent = Missing
  /\ storedName = Missing

\* local storage holds the latest content and the latest name
Synced == (storedContent = markdown /\ storedName = fileName) \/ Cleared

\* C19: after every change of the content or of the name local storage
\* eventually holds the latest content and name, and the status is 'saved'
\* only when it does.
C19_AutoSaveNeverLoses ==
  /\ [](saveStatus = "saved" => Synced)
  /\ (~Synced ~> Synced)

\* ------------------------------------------------- reading order: claim
\* C1: on a page the lines, text and image alike, are emitted in
\* non-increasing order of canonical y.
C1_ReadingOrder ==
  \A a \in 1..Len(emitted) : \A b \in 1..Len(emitted) :
    a < b => emitted[a].y >= emitted[b].y

\* two runs discovered bottom first, two images discovered after them, and an
\* image emitted first
C1_Witness ==
  /\ pc = "done"
  /\ Len(items) = 2
  /\ VisualTop(items[1]) < VisualTop(items[2])
  /\ Len(emitted) = 4
  /\ emitted[1].type = "image"
  /\ emitted[2].type = "text"
  /\ emitted[2].y > emitted[4].y

\* ------------------------------------------------------ heading: claim
\* the largest font size among the runs of a line, a run without height and
\* transform[3] counting as 0
LineFontSize(l) ==
  LET sizes == {HeadingFontSize(items[l.items[m]]) : m \in 1..Len(l.items)}
  IN CHOOSE size \in sizes : \A other \in sizes : other <= size

Processed == pc \in {"emit", "flush", "done"}

StatedPrefix(size, base) ==
  IF Abs(size - base) <= Unit THEN <<>>
  ELSE IF 10 * size >= 18 * base THEN <<35, 32>>
  ELSE IF 10 * size >= 14 * base THEN <<35, 35, 32>>
  ELSE IF 100 * size >= 115 * base THEN <<35, 35, 35, 32>>
  ELSE <<>>

\* C8: a text line of maximum run font size s on a page of base size b has no
\* prefix if |s - b| <= 1, otherwise "# " if s >= 1.8 b, else "## " if
\* s >= 1.4 b, else "### " if s >= 1.15 b, else none.
C8_HeadingLevels ==
  Processed =>
    \A j \in 1..Len(processedLines) :
      processedLines[j].type = "text" =>
        processedLines[j].prefix = StatedPrefix(LineFontSize(lines[j]), baseFontSize)

\* base 12: a line of size 24 has "# " and a line of size 15 has "### "
C8_Witness ==
  /\ Processed
  /\ baseFontSize = 12 * Unit
  /\ \E j \in 1..Len(processedLines) :
       /\ processedLines[j].type = "text"
       /\ LineFontSize(lines[j]) = 24 * Unit
       /\ processedLines[j].prefix = <<35, 32>>
  /\ \E j \in 1..Len(processedLines) :
       /\ processedLines[j].type = "text"
       /\ LineFontSize(lines[j]) = 15 * Unit
       /\ processedLines[j].prefix = <<35, 35, 35, 32>>

\* --------------------------------------------- paragraph assembly: claims
\* the emit loop is at a text line without heading prefix
AtPlainLine ==
  /\ pc = "emit"
  /\ processedLines[index].type = "text"
  /\ processedLines[index].prefix = <<>>

\* the page's maximum line width: the largest width of its text lines
PageMaxLineWidth ==
  LET widths == {processedLines[j].lineWidth :
                   j \in {m \in 1..Len(processedLines) : processedLines[m].type = "text"}}
  IN CHOOSE w \in widths : \A other \in widths : other <= w

PrecedingIsShort == 100 * processedLines[index - 1].lineWidth < 85 * PageMaxLineWidth

\* C9: a plain text line starts a paragraph when the buffer is empty;
\* otherwise, when the width of the line before it is below 85% of the page's
\* maximum line width, the buffer is flushed and the line starts a new
\* paragraph; otherwise the line is merged into the buffer.
C9_ParagraphAssembly ==
  [][AtPlainLine =>
       LET text == processedLines[index].text
       IN IF currentParagraph = <<>>
          THEN currentParagraph' = text /\ pageText' = pageText
          ELSE IF PrecedingIsShort
          THEN /\ pageText' = pageText \o currentParagraph \o <<10, 10>>
               /\ currentParagraph' = text
          ELSE /\ pageText' = pageText
               /\ currentParagraph' \in {currentParagraph \o text,
                                         currentParagraph \o <<32>> \o text}]_vars

\* a short first line was flushed and the second line started a paragraph
C9_Witness ==
  /\ pc = "flush"
  /\ Len(processedLines) = 2
  /\ \A j \in 1..2 : processedLines[j].type = "text" /\ processedLines[j].prefix = <<>>
  /\ 100 * processedLines[1].lineWidth < 85 * processedLines[2].lineWidth
  /\ pageText = processedLines[1].text \o <<10, 10>>
  /\ currentParagraph = processedLines[2].text

\* U+4E00-U+9FA5, U+3000-U+303F, U+FF00-U+FFEF
InCJKRanges(c) ==
  \/ 19968 <= c /\ c <= 40869
  \/ 12288 <= c /\ c <= 12351
  \/ 65280 <= c /\ c <= 65519

AtMerge == AtPlainLine /\ currentParagraph # <<>> /\ ~PrecedingIsShort

\* C10: on a merge, two CJK boundary characters are joined with no separator;
\* boundary characters that are not both CJK and neither a space get exactly
\* one space.  "你好" then "世界" is "你好世界", "hello" then "world" is
\* "hello world".
C10_MergeSeparator ==
  [][AtMerge =>
       LET text == processedLines[index].text
           last == currentParagraph[Len(currentParagraph)]
           first == text[1]
           bothCJK == InCJKRanges(last) /\ InCJKRanges(first)
       IN /\ bothCJK => currentParagraph' = currentParagraph \o text
          /\ (~bothCJK /\ last # 32 /\ first # 32) =>
               currentParagraph' = currentParagraph \o <<32>> \o text
          /\ (currentParagraph = <<20320, 22909>> /\ text = <<19990, 30028>>) =>
               currentParagraph' = <<20320, 22909, 19990, 30028>>
          /\ (currentParagraph = <<104, 101, 108, 108, 111>>
                /\ text = <<119, 111, 114, 108, 100>>) =>
               currentParagraph' = <<104, 101, 108, 108, 111, 32, 119, 111, 114, 108, 100>>]_vars

\* "你好" and "世界" were merged
C10_Witness ==
  /\ pc = "flush"
  /\ Len(processedLines) = 2
  /\ processedLines[1].text = <<20320, 22909>>
  /\ processedLines[2].text = <<19990, 30028>>
  /\ currentParagraph = <<20320, 22909, 19990, 30028>>

\* a whitespace character: tab to carriage return, space, no-break space,
\* ideographic space
IsWhitespace(c) == c \in 9..13 \/ c \in {32, 160, 12288}

\* C24: on a merge whose boundary characters are not both CJK, nothing is
\* inserted if either boundary character is a whitespace character of any
\* kind, and exactly one space otherwise.
C24_NoSeparatorAtWhitespace ==
  [][AtMerge =>
       LET text == processedLines[index].text
           last == currentParagraph[Len(currentParagraph)]
           first == text[1]
       IN ~(InCJKRanges(last) /\ InCJKRanges(first)) =>
            currentParagraph' =
              IF IsWhitespace(last) \/ IsWhitespace(first)
              THEN currentParagraph \o text
              ELSE currentParagraph \o <<32>> \o text]_vars

\* the processed line j is an image line or a heading line
IsBarrier(j) == processedLines[j].type = "image" \/ processedLines[j].prefix # <<>>

\* the block an image line or a heading line puts out
OwnBlock(j) ==
  IF processedLines[j].type = "image"
  THEN ImageMarkdown(SrcOf(pageImages, processedLines[j].data.imageId))
  ELSE processedLines[j].prefix \o processedLines[j].text \o BlankLine

\* the lines put in the buffer since the last image or heading line
SinceBarrier ==
  { j \in 1..(index - 1) : \A k \in j..(index - 1) : ~IsBarrier(k) }

RECURSIVE SumOfLengths(_)
SumOfLengths(S) ==
  IF S = {} THEN 0
  ELSE LET j == CHOOSE x \in S : TRUE
       IN Len(processedLines[j].text) + 1 + SumOfLengths(S \ {j})

\* C25: an image line or a heading line first flushes the open paragraph, with
\* a blank line after it, then puts itself out as its own block; the buffer is
\* empty right after it, and holds no text of a line before it later on.
C25_BarrierFlushesFirst ==
  /\ [][(pc = "emit" /\ IsBarrier(index)) =>
          /\ processedLines[index].type = "image" =>
               SrcOf(pageImages, processedLines[index].data.imageId) # 0
          /\ pageText' = pageText
                           \o (IF currentParagraph # <<>>
                               THEN currentParagraph \o BlankLine ELSE <<>>)
                           \o OwnBlock(index)
          /\ currentParagraph' = <<>>]_vars
  /\ [](pc \in {"emit", "flush"} =>
          /\ (index > 1 /\ IsBarrier(index - 1)) => currentParagraph = <<>>
          /\ Len(currentParagraph) <= SumOfLengths(SinceBarrier))

\* a plain line, then an image: the paragraph, a blank line, the image
C25_Witness ==
  /\ pc = "emit"
  /\ index = 3
  /\ processedLines[1].type = "text" /\ processedLines[1].prefix = <<>>
  /\ processedLines[2].type = "image"
  /\ currentParagraph = <<>>
  /\ pageText = processedLines[1].text \o BlankLine \o ImageMarkdown(1)

\* the processed text lines, in reading order
TextLinesOf(pls) == SelectSeq(pls, LAMBDA l : l.type = "text")

\* what stands between two text lines in the output: nothing, a space or a
\* blank line, then image references, then the prefix of the line that follows
Separators == {<<>>, <<32>>, BlankLine}

ImageRuns ==
  { Flatten(ss) :
      ss \in SeqsUpTo({ ImageMarkdown(pageImages[k].src) : k \in 1..Len(pageImages) },
                      Len(pageImages)) }

\* rest is the text lines tl, each once and in this order, a heading line
\* behind its prefix, with nothing but separators and image references around
RECURSIVE Parses(_, _)
Parses(rest, tl) ==
  \E sep \in Separators, im \in ImageRuns :
    IF tl = <<>> THEN rest = sep \o im
    ELSE LET lead == sep \o im \o Head(tl).prefix \o Head(tl).text
         IN /\ Len(lead) <= Len(rest)
            /\ SubSeq(rest, 1, Len(lead)) = lead
            /\ Parses(SubSeq(rest, Len(lead) + 1, Len(rest)), Tail(tl))

EndsWith(str, tail) ==
  Len(tail) <= Len(str) /\ SubSeq(str, Len(str) - Len(tail) + 1, Len(str)) = tail

C27_TrackerFrame ==
  [][pc = "ops" =>
       LET fn == ops[i].fn
           depth == Len(transformStack)
           pops == fn = "restore" /\ depth > 0
       IN /\ ctm' # ctm => (fn = "transform" \/ pops)
          /\ transformStack' # transformStack =>
               \/ fn = "save" /\ transformStack' = Append(transformStack, ctm)
               \/ pops /\ transformStack' = SubSeq(transformStack, 1, depth - 1)
                       /\ ctm' = transformStack[depth]
          /\ (fn \notin {"transform", "save"} /\ ~pops) =>
               /\ ctm' = ctm
               /\ transformStack' = transformStack
               /\ pc' # "failed"
               /\ thrown' = thrown]_vars

\* a scaling, then a restore with nothing saved, then an unknown operator:
\* the scaling is still the current transform
C27_Witness ==
  /\ i = 4
  /\ Len(ops) = 3
  /\ ops[1] = Op("transform", ScaleHalf)
  /\ ops[2].fn = "restore"
  /\ ops[3].fn = "beginText"
  /\ ctm = multiply(Identity, ScaleHalf)
  /\ ctm # Identity
  /\ transformStack = <<>>

\* C28: when convertPdfToMd rejects, every Blob URL of that conversion has
\* been revoked and the registry is empty, no image is published, error is
\* 'Failed to convert PDF to MD', isConverting is false, and the rejection is
\* the error of the source.
C28_FailureCleansUp ==
  pc = "failed" =>
    /\ \A k \in 1..Len(allExtractedImages) : allExtractedImages[k].src \in revoked
    /\ \A k \in 1..Len(pageImages) : pageImages[k].src \in revoked
    /\ activeUrls = <<>>
    /\ extractedImages = <<>>
    /\ error = PdfFailed
    /\ isConverting = FALSE
    /\ thrown \in SourceErrors

\* the second page cannot be read, after a page with an image
C28_Witness ==
  /\ pc = "failed"
  /\ pageNumber = 2
  /\ allExtractedImages # <<>>
  /\ allExtractedImages[1].src \in revoked
  /\ activeUrls = <<>>
  /\ isConverting = FALSE

\* a conversion is in flight
InFlight == pc \notin {"idle", "returned", "failed"}
SecondInFlight == second = "running"

\* C29: isConverting is true exactly while a conversion is in flight, after
\* any interleaving of calls, successes and failures.
C29_ConvertingWhileInFlight == isConverting <=> (InFlight \/ SecondInFlight)

\* ------------------------------------------------- image failures: claims
AtPaint == pc = "ops" /\ IsPaint(ops[i].fn)

\* the paint operators already replayed that left no placement
FailedPaints ==
  {k \in 1..(i - 1) : IsPaint(ops[k].fn)
                       /\ \A m \in 1..Len(imageInfos) : imageInfos[m].id # ImgId(pageNumber, k)}

\* the page's text and images are all put out: every run that gets past the
\* filter is in an emitted text line, every placement that is not at the very
\* edge of the page is an emitted image line
PageIsEmitted ==
  /\ \A k \in 1..Len(items) :
       Survives(items[k], pageHeight, baseFontSize) =>
         \E e \in 1..Len(emitted) :
           emitted[e].type = "text" /\ k \in Range(emitted[e].items)
  /\ \A m \in 1..Len(imageInfos) :
       ~IsAtPageEdge(imageInfos[m].y, pageHeight) =>
         \E e \in 1..Len(emitted) :
           emitted[e].type = "image" /\ emitted[e].imageId = imageInfos[m].id

\* C11: a painted image that cannot be resolved or decoded does not fail the
\* conversion: the operator loop goes on to the next operator with the
\* transform state as it was, and the page's text and its other images are
\* emitted.
C11_ImageFailureIsSkipped ==
  /\ [][AtPaint =>
          /\ pc' # "failed"
          /\ thrown' = Nothing
          /\ i' = i + 1
          /\ ctm' = ctm
          /\ transformStack' = transformStack]_vars
  /\ [](pc = "done" => PageIsEmitted)

\* two pages: on the first the first paint failed and the second gave an
\* image; on the second the paint failed and the text is there
C11_Witness ==
  /\ pc = "returned"
  /\ numPages = 2
  /\ FailedPaints # {}
  /\ Len(extractedImages) = 1
  /\ extractedImages[1].id = ImgId(1, 7)
  /\ fragments[2] = SWorld \o BlankLine

\* the image table of the conversion so far
ImageTable == IF pc = "ops" THEN allExtractedImages \o pageImages ELSE allExtractedImages

EntriesOf(url) == {k \in 1..Len(ImageTable) : ImageTable[k].src = url}

\* C12: a failed image registers no Blob URL and adds no image-table entry;
\* every URL registered during the conversion belongs to exactly one entry of
\* the image table, and every entry's URL is registered.
C12_NoOrphanHandle ==
  /\ [][(AtPaint /\ imageInfos' = imageInfos) =>
          /\ activeUrls' = activeUrls
          /\ urlCount' = urlCount
          /\ pageImages' = pageImages
          /\ allExtractedImages' = allExtractedImages]_vars
  /\ [](pc \notin {"idle", "failed"} =>
          /\ \A k \in 1..Len(activeUrls) : Cardinality(EntriesOf(activeUrls[k])) = 1
          /\ \A k \in 1..Len(ImageTable) : ImageTable[k].src \in Range(activeUrls)
          /\ Len(ImageTable) = Len(activeUrls))

\* a page's first paint failed, its second gave the only URL and the only entry
C12_Witness ==
  /\ pc = "returned"
  /\ FailedPaints # {}
  /\ Len(activeUrls) = 1
  /\ Len(extractedImages) = 1
  /\ extractedImages[1].src = activeUrls[1]
  /\ extractedImages[1].id = ImgId(pageNumber, 7)

\* ------------------------------------------------- source failure: claim
\* C13: when the document or page n cannot be read the call fails with a
\* failure that carries the index of the page where it occurred, and no
\* Markdown is returned for the pages done before.
C13_FailureCarriesPage ==
  pc = "failed" =>
    /\ result = <<>>
    /\ thrown # Nothing
    /\ pageNumber >= 1 => ("page" \in DOMAIN thrown /\ thrown.page = pageNumber)

\* ------------------------------------------------------ document: claims
AllSpace(str) == \A k \in 1..Len(str) : IsSpace(str[k])

NotAllSpace(str) == ~AllSpace(str)

\* the fragments in order, one blank line between two of them
RECURSIVE Separated(_)
Separated(fs) ==
  IF fs = <<>> THEN <<>>
  ELSE IF Len(fs) = 1 THEN fs[1]
  ELSE Separated(SubSeq(fs, 1, Len(fs) - 1)) \o <<10, 10>> \o fs[Len(fs)]

\* C14: the document is the fragments of the pages whose fragment is not all
\* whitespace, in page order, a blank line between consecutive fragments; a page
\* whose fragment is all whitespace adds neither text nor a separator.
C14_DocumentIsJoinedFragments ==
  pc = "returned" =>
    /\ Len(fragments) = numPages
    /\ result = Separated(SelectSeq(fragments, NotAllSpace))

\* three pages, the second without a surviving line
C14_Witness ==
  /\ pc = "returned"
  /\ numPages = 3
  /\ fragments[1] = SHello \o <<10, 10>>
  /\ fragments[2] = <<>>
  /\ fragments[3] = SNiHao \o SShiJie \o <<10, 10>>
  /\ result = SHello \o <<10, 10, 10, 10>> \o SNiHao \o SShiJie \o <<10, 10>>

\* the lines' texts as one paragraph: nothing between two CJK characters or
\* next to a space, one space otherwise
RECURSIVE ParagraphOf(_)
ParagraphOf(texts) ==
  IF Len(texts) = 1 THEN texts[1]
  ELSE LET before == ParagraphOf(SubSeq(texts, 1, Len(texts) - 1))
           text == texts[Len(texts)]
           last == before[Len(before)]
           first == text[1]
       IN IF (InCJKRanges(last) /\ InCJKRanges(first)) \/ last = 32 \/ first = 32
          THEN before \o text
          ELSE before \o <<32>> \o text

\* one page, no image painted, and the lines are plain text that all merge
OnePlainParagraph ==
  /\ numPages = 1
  /\ \A k \in 1..Len(ops) : ~IsPaint(ops[k].fn)
  /\ processedLines # <<>>
  /\ \A j \in 1..Len(processedLines) :
       processedLines[j].type = "text" /\ processedLines[j].prefix = <<>>
  /\ \A j \in 2..Len(processedLines) :
       ~(100 * processedLines[j - 1].lineWidth < 85 * PageMaxLineWidth)

\* C15: a document of one page without images whose text is one plain
\* paragraph converts to that paragraph followed by "\n\n", and the image
\* table is empty.
C15_OneParagraphRoundTrip ==
  (pc = "returned" /\ OnePlainParagraph) =>
    /\ result = ParagraphOf([j \in 1..Len(processedLines) |-> processedLines[j].text])
                  \o <<10, 10>>
    /\ extractedImages = <<>>

\* "hello" and "world" on two lines
C15_Witness ==
  /\ pc = "returned"
  /\ OnePlainParagraph
  /\ Len(processedLines) = 2
  /\ result = <<104, 101, 108, 108, 111, 32, 119, 111, 114, 108, 100, 10, 10>>
  /\ extractedImages = <<>>

\* ---------------------------------------------------- page order: claims
\* id a is of an earlier page than id b, or of the same page and an earlier
\* operator
IdBefore(a, b) == a[1] < b[1] \/ (a[1] = b[1] /\ a[2] < b[2])

InIdOrder(table) ==
  \A a \in 1..Len(table) : \A b \in 1..Len(table) :
    a < b => IdBefore(table[a].id, table[b].id)

\* C16: pages are processed one at a time in ascending order: the page loop
\* moves to page n+1 only when every operator of page n has been replayed and
\* its fragment appended; fragments are appended in page order and the image
\* table is in page order and, within a page, in operator order.
C16_PagesInSequence ==
  /\ [][pageNumber' # pageNumber =>
          /\ pageNumber' = pageNumber + 1
          /\ pageNumber >= 1 =>
               /\ pc = "start"
               /\ i > Len(ops)
               /\ index > Len(processedLines)
               /\ Len(fragments) = pageNumber]_vars
  /\ [][fragments' # fragments =>
          /\ fragments' = Append(fragments, pageText')
          /\ Len(fragments') = pageNumber
          /\ parts' \in {parts, Append(parts, pageText')}]_vars
  /\ [](InIdOrder(ImageTable) /\ InIdOrder(imageInfos) /\ InIdOrder(extractedImages))

\* three pages: two images, none, one image
C16_Witness ==
  /\ pc = "returned"
  /\ numPages = 3
  /\ Len(fragments) = 3
  /\ [k \in 1..Len(extractedImages) |-> extractedImages[k].id]
       = <<ImgId(1, 3), ImgId(1, 7), ImgId(3, 3)>>

\* --------------------------------------------------- identifiers: claim
Distinct(table) ==
  \A a \in 1..Len(table) : \A b \in 1..Len(table) :
    a # b => table[a].id # table[b].id

\* what an identifier is made of
PageOf(id) == id[1]
OperatorOf(id) == id[2]

\* C17: no two placements and no two image-table entries of a conversion have
\* the same identifier; an entry's identifier is the page number and the
\* index of the paint operator it comes from.
C17_IdentifiersAreUnique ==
  /\ Distinct(ImageTable)
  /\ Distinct(imageInfos)
  /\ Distinct(extractedImages)
  /\ pc \in {"ops", "group", "images", "process", "emit", "flush", "done"} =>
       \A k \in 1..Len(pageImages) :
         /\ PageOf(pageImages[k].id) = pageNumber
         /\ OperatorOf(pageImages[k].id) + 1 \in 1..Len(ops)
         /\ IsPaint(ops[OperatorOf(pageImages[k].id) + 1].fn)

\* the same image painted twice on each of two pages
C17_Witness ==
  /\ pc = "returned"
  /\ numPages = 2
  /\ Len(extractedImages) = 4
  /\ PageOf(extractedImages[2].id) = 1
  /\ PageOf(extractedImages[3].id) = 2

\* ------------------------------------------------- line assembly: claim
\* the line assembly inputs: runs on one baseline, at x -30, 0, 10 or 30, 10
\* wide or without width, in any order
Sb == <<98>>                                             \* "b"

LineRuns ==
  { Run(str, x, 688 * Unit, 0, 12 * Unit, w) :
      str \in {Sa, Sb}, x \in {-30 * Unit, 0, 10 * Unit, 30 * Unit}, w \in {0, 10 * Unit} }

LinePages == { Page(its, <<>>, 800 * Unit) : its \in SeqsUpTo(LineRuns, MaxLineRuns) }

NextLine ==
  \/ StartPage(LinePages)
  \/ EstimateBase
  \/ GroupItem
  \/ AddImagesAndSort
  \/ ProcessLines

SpecLine == Init /\ [][NextLine]_vars

\* C18: assembling a text line again, from its runs as the first assembly
\* left them (sorted by x), gives the same string and the same width.
C18_AssemblyIsIdempotent ==
  pc \in {"emit", "flush"} =>
    \A j \in 1..Len(processedLines) :
      processedLines[j].type = "text" =>
        LET again == ProcessLine(lines[j], items, baseFontSize)
        IN /\ again.text = processedLines[j].text
           /\ again.lineWidth = processedLines[j].lineWidth
           /\ again.data.items = lines[j].items

\* three runs found right to left, assembled left to right with a space
\* before the last
C18_Witness ==
  /\ pc = "emit"
  /\ Len(items) = 3
  /\ items[1].transform[5] > items[2].transform[5]
  /\ items[2].transform[5] > items[3].transform[5]
  /\ Len(processedLines) = 1
  /\ lines[1].items = <<3, 2, 1>>
  /\ processedLines[1].text = <<97, 98, 32, 97>>
  /\ processedLines[1].lineWidth = 40 * Unit

\* the gap between the run k and the run before it in the line
GapBefore(k, before, its) ==
  its[k].transform[5] - (its[before].transform[5] + WidthOf(its[before]))

\* the contents of the runs ks, a space before a run whose gap exceeds a
\* quarter of its font size
RECURSIVE WithSpaces(_, _, _)
WithSpaces(ks, its, base) ==
  IF Len(ks) <= 1 THEN (IF ks = <<>> THEN <<>> ELSE its[ks[1]].str)
  ELSE LET front == SubSeq(ks, 1, Len(ks) - 1)
           k == ks[Len(ks)]
       IN WithSpaces(front, its, base)
            \o (IF 4 * GapBefore(k, ks[Len(ks) - 1], its) > SpacingFontSize(its[k], base)
                THEN <<32>> ELSE <<>>)
            \o its[k].str

\* C23: in an assembled line there is one space between two x-consecutive
\* runs if the gap exceeds 25% of the later run's font size and nothing
\* otherwise, whatever the coordinates; no space before the first run.
C23_SpaceIffGap ==
  pc \in {"emit", "flush"} =>
    \A j \in 1..Len(processedLines) :
      processedLines[j].type = "text" =>
        processedLines[j].text = WithSpaces(lines[j].items, items, baseFontSize)

\* --------------------------------------------------- clustering: claims
\* the clustering inputs: runs of size 10 whose visual tops are 100, 103, 104,
\* 105 and 108, blank or not, in any order; no image, or one whose visual top
\* is 108
ClusterRuns ==
  { Run(str, 0, y, 0, 10 * Unit, 10 * Unit) :
      str \in {Sa, SBlank},
      y \in {92 * Unit, 95 * Unit, 96 * Unit, 97 * Unit, 100 * Unit} }

ClusterPages ==
  { Page(its, os, 800 * Unit) :
      its \in SeqsUpTo(ClusterRuns, MaxClusterRuns), os \in {<<>>, ImageAt(108 * Unit)} }

NextCluster ==
  \/ StartPage(ClusterPages)
  \/ EstimateBase
  \/ ReplayOp
  \/ GroupItem
  \/ AddImagesAndSort

SpecCluster == Init /\ [][NextCluster]_vars

\* the run the clustering loop is at, and its visual top
AtRun == pc = "group" /\ n <= Len(items)
RunTop == VisualTop(items[n])
RunSurvives == Survives(items[n], pageHeight, baseFontSize)

\* the text lines within the tolerance of y
TextLinesNear(y) ==
  { j \in 1..Len(lines) : lines[j].type = "text" /\ Abs(lines[j].y - y) < Y_TOLERANCE * Unit }

\* the step puts the run in the existing line j
JoinsLine(j) == Len(lines') = Len(lines) /\ lines'[j].items = Append(lines[j].items, n)

\* C21: a run within the tolerance of more than one text line joins the
\* nearest of them.
C21_JoinsNearest ==
  [][ (AtRun /\ RunSurvives /\ Cardinality(TextLinesNear(RunTop)) > 1) =>
        \A j \in TextLinesNear(RunTop) :
          JoinsLine(j) =>
            \A m \in TextLinesNear(RunTop) :
              Abs(lines[j].y - RunTop) <= Abs(lines[m].y - RunTop) ]_vars

\* how many times the run k is held by the lines
Holders(k) ==
  { <<j, at>> \in (1..Len(lines)) \X (1..Len(items)) :
      at <= Len(lines[j].items) /\ lines[j].items[at] = k }

\* the runs the clustering loop is through with
Clustered == IF pc = "group" THEN 1..(n - 1) ELSE 1..Len(items)

\* C22: every surviving run is in exactly one text line, less than 4 from the
\* line's canonical y; a line is created only when no text line is within 4 of
\* the run, with the run's y as its canonical y, which never changes.
C22_OneLineWithinTolerance ==
  /\ [](pc \in {"group", "images", "process"} =>
          /\ \A k \in Clustered :
               Cardinality(Holders(k)) =
                 IF Survives(items[k], pageHeight, baseFontSize) THEN 1 ELSE 0
          /\ \A j \in 1..Len(lines) :
               lines[j].type = "text" =>
                 /\ lines[j].items # <<>>
                 /\ lines[j].y = VisualTop(items[lines[j].items[1]])
                 /\ \A at \in 1..Len(lines[j].items) :
                      Abs(VisualTop(items[lines[j].items[at]]) - lines[j].y) < 4 * Unit)
  /\ [][ AtRun =>
           /\ \A j \in 1..Len(lines) : lines'[j].y = lines[j].y
           /\ Len(lines') > Len(lines) =>
                /\ RunSurvives
                /\ Len(lines') = Len(lines) + 1
                /\ lines'[Len(lines')].y = RunTop
                /\ \A j \in 1..Len(lines) : Abs(lines[j].y - RunTop) >= 4 * Unit ]_vars

\* three runs at 100, 104 and 103: two lines, the third run in the first
C22_Witness ==
  /\ pc = "images"
  /\ Len(items) = 3
  /\ Len(lines) = 2
  /\ lines[1].y = 100 * Unit /\ lines[1].items = <<1, 3>>
  /\ lines[2].y = 104 * Unit /\ lines[2].items = <<2>>

\* C30: any two distinct text lines of a page have canonical y values at
\* least 4 apart, at every point of the clustering loop and after the sort.
C30_LinesAreApart ==
  \A j, k \in 1..Len(lines) :
    (j # k /\ lines[j].type = "text" /\ lines[k].type = "text") =>
      Abs(lines[j].y - lines[k].y) >= 4 * Unit

\* three text lines and an image line at the y of one of them, sorted
C30_Witness ==
  /\ pc = "process"
  /\ Len(lines) = 4
  /\ \E j, k \in 1..4 :
       /\ lines[j].type = "image" /\ lines[k].type = "text"
       /\ lines[j].y = lines[k].y
  /\ Cardinality({ j \in 1..4 : lines[j].type = "text" }) = 3

====
